---- MODULE Spec2Model ----
(***************************************************************************)
(* A model of the hackharvard repository:                                  *)
(*   - model-server/server.py: the HTTP inference gateway (/detect,        *)
(*     /face/embed, /face/verify), handlers interleaving on one event      *)
(*     loop with the MTCNN forward pass offloaded to a thread pool;        *)
(*   - yolo/train.py: the trainer CLI (dataset split and hand-off).        *)
(*                                                                         *)
(* Conventions.  Strings that the code inspects character by character are *)
(* sequences of one-character strings.  Python's None is the record        *)
(* [none |-> TRUE], a raised exception is [exc |-> <type name>].  Floats   *)
(* are exact rationals: confidences are hundredths (1.0 is 100), vector    *)
(* components and similarities are pairs <<numerator, denominator>>.       *)
(* The third-party networks (YOLO, MTCNN, InceptionResnetV1) are fixed     *)
(* read-only functions of their input, tabulated on the sample images.     *)
(***************************************************************************)
EXTENDS Integers, Sequences, FiniteSets, TLC

VARIABLES
    \* ---- server.py, module level
    FACENET_AVAILABLE,  \* import guard, server.py:15-20
    mtcnn,              \* None or the MTCNN handle, server.py:66-80
    resnet,             \* None or the InceptionResnetV1 handle, server.py:67-80
    \* ---- server.py, one entry per request being handled
    pc,                 \* where the handler of the slot stands
    req,                \* the request body (endpoint, image, reference)
    pil,                \* local `pil` of face_embed / face_verify
    fwd,                \* result of the offloaded _forward()
    response,           \* what the handler returned
    calls,              \* which of decode / mtcnn / resnet the handler invoked
    overlapped,         \* another handler ran while this one was suspended
    \* ---- train.py
    tpc,                \* position in main()
    fs,                 \* the file system the CLI sees
    args,               \* parsed command line (val_split in hundredths, seed)
    class_names,
    all_images,
    images_with_labels, \* the list object main() passes to write_split_files
    split,              \* train.txt / val.txt as written (or "None")
    raised,             \* the exception main() died with, or "None"
    history             \* outputs of earlier write_split_files calls

serverVars == <<FACENET_AVAILABLE, mtcnn, resnet, pc, req, pil, fwd, response,
                calls, overlapped>>
trainVars  == <<tpc, fs, args, class_names, all_images, images_with_labels,
                split, raised, history>>
vars == <<serverVars, trainVars>>

\* Python values that may be None or a raised exception are records.
None == [none |-> TRUE]
Exc(name) == [exc |-> name]
IsExc(x) == "exc" \in DOMAIN x

(***************************************************************************)
(* Bounds                                                                  *)
(***************************************************************************)
MaxRequests == 2        \* request handlers in flight at once
MaxJpg == 10            \* .jpg files in the images directory
MaxPng == 2             \* .png files in the images directory
MaxUnlabelled == 2      \* stems that may lack a label file
MaxCalls == 3           \* write_split_files calls a caller makes in a row

Requests == 1..MaxRequests

(***************************************************************************)
(* Image strings and their decoding                                        *)
(***************************************************************************)
\* The base64 alphabet as far as the sample inputs use it.
B64Alphabet == {"A", "B", "C", "E", "F", "I", "J", "K", "M", "N", "O", "T",
                "U", "W"}

RECURSIVE SplitFrom(_, _, _)
\* str.split(','): every comma ends a segment; i scans, cur is the open segment
SplitFrom(s, i, cur) ==
    IF i > Len(s) THEN <<cur>>
    ELSE IF s[i] = "," THEN <<cur>> \o SplitFrom(s, i + 1, <<>>)
    ELSE SplitFrom(s, i + 1, Append(cur, s[i]))

StrSplit(s) == SplitFrom(s, 1, <<>>)

HasComma(s) == \E i \in 1..Len(s) : s[i] = ","

\* `x.split(',')[1] if ',' in x else x` (Python index 1 is the second segment)
StripHeader(image) == IF HasComma(image) THEN StrSplit(image)[2] ELSE image

\* base64.b64decode in its default, non-validating mode: characters outside
\* the alphabet are discarded, then unpadded data whose length is not a
\* multiple of four raises binascii.Error.  Bytes are written as the canonical
\* base64 text that encodes them.
B64Decode(raw) ==
    LET data == SelectSeq(raw, LAMBDA c : c \in B64Alphabet)
    IN  IF Len(data) % 4 # 0 THEN Exc("binascii.Error") ELSE [bytes |-> data]

\* The byte strings that are encoded images.
ImageBytes == { <<"F", "A", "C", "E">>, <<"T", "W", "I", "N">>,
                <<"N", "O", "N", "E">>, <<"B", "O", "O", "M">> }

\* cv2.imdecode: None for bytes that are no image; an empty buffer raises.
Imdecode(buf) ==
    IF buf = <<>> THEN Exc("cv2.error")
    ELSE IF buf \in ImageBytes THEN [img |-> buf] ELSE None

\* Image.open(...).convert('RGB'): raises for bytes that are no image.
ImageOpen(buf) ==
    IF buf \in ImageBytes THEN [img |-> buf] ELSE Exc("UnidentifiedImageError")

\* _decode_image_to_rgb: every exception becomes None
DecodeRaises(image_b64) ==
    LET b == B64Decode(StripHeader(image_b64))
    IN  IF IsExc(b) THEN b ELSE ImageOpen(b.bytes)
_decode_image_to_rgb(image_b64) ==
    LET b == B64Decode(StripHeader(image_b64))
    IN  IF IsExc(b) THEN None
        ELSE IF IsExc(ImageOpen(b.bytes)) THEN None ELSE ImageOpen(b.bytes)

(***************************************************************************)
(* The networks, as read-only functions                                    *)
(***************************************************************************)
DETECTIONS == <<"tongue_left", "tongue_right", "tongue_up", "tongue_down",
                "tongue_center", "no_tongue">>

\* model.names[cls_id], class ids counted from 0
ModelNames(cls_id) == DETECTIONS[cls_id + 1]

\* model.predict(img, conf=0.25)[0].boxes, in the detector's output order
Predict(img) ==
    CASE img.img = <<"F", "A", "C", "E">> -> [boxes |-> << [cls |-> 2, conf |-> 91] >>]
      [] img.img = <<"T", "W", "I", "N">> ->
            [boxes |-> << [cls |-> 0, conf |-> 55], [cls |-> 1, conf |-> 80] >>]
      [] img.img = <<"B", "O", "O", "M">> -> Exc("RuntimeError")
      [] OTHER -> [boxes |-> << >>]

\* mtcnn(pil): the aligned face crop, None when no face is found
MtcnnNet(p) ==
    CASE p.img = <<"F", "A", "C", "E">> -> [face |-> p.img]
      [] p.img = <<"T", "W", "I", "N">> -> [face |-> p.img]
      [] p.img = <<"B", "O", "O", "M">> -> Exc("RuntimeError")
      [] OTHER -> None

\* resnet(aligned)[0]: the raw embedding
ResnetNet(a) ==
    CASE a.face = <<"F", "A", "C", "E">> -> <<2, 0, 0, 0>>
      [] OTHER -> <<0, 3, 0, 4>>

\* np.linalg.norm(v) or 1.0, for vectors whose norm is a whole number
SumSq(v) == LET RECURSIVE S(_)
                S(i) == IF i = 0 THEN 0 ELSE v[i] * v[i] + S(i - 1)
            IN  S(Len(v))
Isqrt(n) == CHOOSE k \in 0..n : k * k = n
NormOr1(v) == IF Isqrt(SumSq(v)) = 0 THEN 1 ELSE Isqrt(SumSq(v))

\* v / norm, component by component: each a pair <<numerator, denominator>>
Normalize(v) == [i \in 1..Len(v) |-> <<v[i], NormOr1(v)>>]

\* np.dot of two normalized vectors; shapes that do not align raise
Dot(a, b) ==
    LET RECURSIVE D(_)
        D(i) == IF i = 0 THEN 0 ELSE a[i][1] * b[i][1] + D(i - 1)
    IN  IF Len(a) # Len(b) THEN Exc("ValueError")
        ELSE IF Len(a) = 0 THEN [sim |-> <<0, 1>>]
        ELSE [sim |-> <<D(Len(a)), a[1][2] * b[1][2]>>]

(***************************************************************************)
(* Request inputs                                                          *)
(***************************************************************************)
ImgFace     == <<"F", "A", "C", "E">>                      \* raw base64, a face
ImgTwin     == <<"d", "a", "t", "a", ",", "T", "W", "I", "N">>  \* data URL
ImgNone     == <<"N", "O", "N", "E">>                      \* an image of nothing
ImgJunk     == <<"J", "U", "N", "K">>                      \* base64, but no image
ImgBadB64   == <<"F", "A", "C">>                           \* bad base64 padding
ImgBoom     == <<"B", "O", "O", "M">>                      \* the networks raise
ImgTwoComma == <<"d", ",", "F", "A", "C", "E", ",", "N", "O", "N", "E">>
ImgNoBytes  == <<"!", "!">>                                \* decodes to b""

Images == {ImgFace, ImgTwin, ImgNone, ImgJunk, ImgBadB64, ImgBoom, ImgTwoComma,
           ImgNoBytes}

References == { <<>>, <<7, 1, 1, 7>>, <<3, 0, 0, 0>>, <<0, 0, 0, 0>>, <<1>> }

\* the (image, reference) bodies posted to /face/verify
VerifyInputs ==
    ({ImgFace} \X References)
        \cup ({ImgNone, ImgJunk, ImgBadB64} \X {<<7, 1, 1, 7>>})
        \cup ({ImgBadB64, ImgTwin} \X {<<>>})

(***************************************************************************)
(* /detect                                                                 *)
(***************************************************************************)
\* a detector front end that re-ranks: the box of highest confidence
BestBox(boxes) ==
    boxes[CHOOSE i \in 1..Len(boxes) :
            \A j \in 1..Len(boxes) : boxes[j].conf <= boxes[i].conf]
\* results[0].boxes[0]
FirstBox(boxes) == boxes[1]

\* the handler's `except Exception as e` variant
DetectError(e) == [error |-> e, detection |-> "no_tongue", confidence |-> 0]

detect(image) ==
    LET b == B64Decode(StripHeader(image)) IN
    IF IsExc(b) THEN DetectError(b.exc) ELSE
    LET img == Imdecode(b.bytes) IN
    IF IsExc(img) THEN DetectError(img.exc) ELSE
    IF img = None THEN
        [error |-> "Failed to decode image", detection |-> "no_tongue",
         confidence |-> 0] ELSE
    LET results == Predict(img) IN
    IF IsExc(results) THEN DetectError(results.exc) ELSE
    IF Len(results.boxes) = 0 THEN
        [detection |-> "no_tongue", confidence |-> 100] ELSE
    LET box == FirstBox(results.boxes) IN
        [detection |-> ModelNames(box.cls), confidence |-> box.conf]

(***************************************************************************)
(* /face/embed and /face/verify                                            *)
(***************************************************************************)
\* a guard that looks at the import flag alone
FaceBackendImported == FACENET_AVAILABLE
\* `FACENET_AVAILABLE and mtcnn and resnet`
FaceBackendReady == FACENET_AVAILABLE /\ mtcnn # None /\ resnet # None

\* A handler either returns, suspends at its await, or lets an exception out.
Return(resp, c)  == [pc |-> "done", pil |-> None, response |-> resp, calls |-> c]
Suspend(p, c)    == [pc |-> "await", pil |-> p, response |-> None, calls |-> c]
Propagate(e, c)  == [pc |-> "raised", pil |-> None, response |-> e, calls |-> c]

\* face_embed up to `await _run_in_threadpool_mtcnn(pil)`
face_embed_entry(r) ==
    IF ~FaceBackendReady THEN
        Return([error |-> "FaceNet not available on server",
                embedding |-> None], {}) ELSE
    LET p == _decode_image_to_rgb(r.image) IN
    IF IsExc(p) THEN Propagate(p, {"decode"}) ELSE
    IF p = None THEN
        Return([error |-> "Could not decode image", embedding |-> None],
               {"decode"})
    ELSE Suspend(p, {"decode"})

\* face_verify with the image decoded ahead of the reference check
face_verify_decode_first(r) ==
    IF ~FaceBackendReady THEN
        Return([error |-> "FaceNet not available on server"], {}) ELSE
    LET p == _decode_image_to_rgb(r.image) IN
    IF IsExc(p) THEN Propagate(p, {"decode"}) ELSE
    IF p = None THEN Return([error |-> "Could not decode image"], {"decode"})
    ELSE IF Len(r.reference) = 0 THEN
        Return([error |-> "Empty reference embedding"], {"decode"})
    ELSE Suspend(p, {"decode"})
\* face_verify up to `await _run_in_threadpool_mtcnn(pil)`
face_verify_entry(r) ==
    IF ~FaceBackendReady THEN
        Return([error |-> "FaceNet not available on server"], {}) ELSE
    IF Len(r.reference) = 0 THEN
        Return([error |-> "Empty reference embedding"], {}) ELSE
    LET p == _decode_image_to_rgb(r.image) IN
    IF IsExc(p) THEN Propagate(p, {"decode"}) ELSE
    IF p = None THEN Return([error |-> "Could not decode image"], {"decode"})
    ELSE Suspend(p, {"decode"})

\* _forward(), run by the thread pool on the `pil` its closure captured
_forward(p) ==
    IF mtcnn = None THEN Exc("AssertionError") ELSE
    LET x == MtcnnNet(p) IN
    IF IsExc(x) \/ x = None THEN x ELSE [batch |-> <<x>>]

\* resnet(aligned.to(DEVICE)).cpu().numpy()[0], then the L2 normalization
Embed(aligned) == Normalize(ResnetNet(aligned.batch[1]))

\* face_embed after the await
face_embed_resume(aligned) ==
    IF IsExc(aligned) THEN [error |-> aligned.exc, embedding |-> None] ELSE
    IF aligned = None THEN
        [error |-> "No face detected", embedding |-> None] ELSE
    LET emb == Embed(aligned) IN
        [embedding |-> emb, dimension |-> Len(emb)]

\* threshold = 0.7, as the fraction 7/10
ThresholdNum == 7
ThresholdDen == 10

\* a strict comparison in place of >=
MatchStrict(similarity) ==
    similarity[1] * ThresholdDen > ThresholdNum * similarity[2]
\* similarity >= threshold
Match(similarity) ==
    similarity[1] * ThresholdDen >= ThresholdNum * similarity[2]

\* face_verify after the await
face_verify_resume(aligned, reference) ==
    IF IsExc(aligned) THEN [error |-> aligned.exc] ELSE
    IF aligned = None THEN [error |-> "No face detected"] ELSE
    LET emb == Embed(aligned)
        ref == Normalize(reference)
        d   == Dot(emb, ref)
    IN  IF IsExc(d) THEN [error |-> d.exc]
        ELSE [similarity |-> d.sim, match |-> Match(d.sim),
              threshold |-> <<ThresholdNum, ThresholdDen>>]

(***************************************************************************)
(* The server as a state machine                                           *)
(***************************************************************************)
\* The state after the module is imported.  A failed import of facenet_pytorch
\* leaves FACENET_AVAILABLE False and both handles None; a failed
\* initialization resets both handles to None.  (Where the interpreter
\* evaluates the annotation Optional[MTCNN] of line 66 eagerly, the failed
\* import ends the process there and only the other two starts occur.)
ServerInit ==
    /\ \E ok \in {"ready", "import_failed", "init_failed"} :
          /\ FACENET_AVAILABLE = (ok # "import_failed")
          /\ mtcnn  = IF ok = "ready" THEN [handle |-> "MTCNN"] ELSE None
          /\ resnet = IF ok = "ready" THEN [handle |-> "InceptionResnetV1"]
                      ELSE None
    /\ pc = [r \in Requests |-> "idle"]
    /\ req = [r \in Requests |-> None]
    /\ pil = [r \in Requests |-> None]
    /\ fwd = [r \in Requests |-> None]
    /\ response = [r \in Requests |-> None]
    /\ calls = [r \in Requests |-> {}]
    /\ overlapped = [r \in Requests |-> FALSE]

Suspended(q) == pc[q] \in {"await", "resume"}

\* bookkeeping: slot r ran a step; every other suspended handler was overlapped
Ran(r, reset) ==
    overlapped' = [q \in Requests |->
                     IF q = r THEN (IF reset THEN FALSE ELSE overlapped[r])
                     ELSE overlapped[q] \/ Suspended(q)]

Handles == <<FACENET_AVAILABLE, mtcnn, resnet>>

\* POST /detect: the handler has no await, it runs to its return
Detect(r) ==
    /\ pc[r] = "idle"
    /\ \E image \in Images :
          /\ req' = [req EXCEPT ![r] = [endpoint |-> "/detect", image |-> image]]
          /\ response' = [response EXCEPT ![r] = detect(image)]
    /\ pc' = [pc EXCEPT ![r] = "done"]
    /\ Ran(r, TRUE)
    /\ UNCHANGED <<Handles, pil, fwd, calls>>

Enter(r, request, out) ==
    /\ req' = [req EXCEPT ![r] = request]
    /\ pc' = [pc EXCEPT ![r] = out.pc]
    /\ pil' = [pil EXCEPT ![r] = out.pil]
    /\ response' = [response EXCEPT ![r] = out.response]
    /\ calls' = [calls EXCEPT ![r] = out.calls]
    /\ Ran(r, TRUE)
    /\ UNCHANGED <<Handles, fwd>>

\* POST /face/embed, from the request to the return or the await
FaceEmbed(r) ==
    /\ pc[r] = "idle"
    /\ \E image \in Images :
          LET request == [endpoint |-> "/face/embed", image |-> image]
          IN  Enter(r, request, face_embed_entry(request))

\* POST /face/verify, from the request to the return or the await
FaceVerify(r) ==
    /\ pc[r] = "idle"
    /\ \E body \in VerifyInputs :
          LET request == [endpoint |-> "/face/verify", image |-> body[1],
                          reference |-> body[2]]
          IN  Enter(r, request, face_verify_entry(request))

\* a forward pass reading one module-level image instead of its own closure
ForwardInputShared(r) ==
    LET S == {q \in Requests : pil[q] # None}
    IN  pil[CHOOSE q \in S : \A o \in S : q <= o]
\* the `pil` that the closure _forward of handler r reads
ForwardInput(r) == pil[r]

\* run_in_threadpool(_forward): a worker thread runs the forward pass
RunForward(r) ==
    /\ pc[r] = "await"
    /\ fwd' = [fwd EXCEPT ![r] = _forward(ForwardInput(r))]
    /\ calls' = [calls EXCEPT ![r] =
                    IF mtcnn = None THEN @ ELSE @ \cup {"mtcnn"}]
    /\ pc' = [pc EXCEPT ![r] = "resume"]
    /\ Ran(r, FALSE)
    /\ UNCHANGED <<Handles, req, pil, response>>

UsesResnet(aligned) == ~IsExc(aligned) /\ aligned # None

\* the event loop resumes the handler with the awaited value
Resume(r) ==
    /\ pc[r] = "resume"
    /\ response' = [response EXCEPT ![r] =
          IF req[r].endpoint = "/face/embed" THEN face_embed_resume(fwd[r])
          ELSE face_verify_resume(fwd[r], req[r].reference)]
    /\ calls' = [calls EXCEPT ![r] =
                    IF UsesResnet(fwd[r]) THEN @ \cup {"resnet"} ELSE @]
    /\ pc' = [pc EXCEPT ![r] = "done"]
    /\ pil' = [pil EXCEPT ![r] = None]
    /\ fwd' = [fwd EXCEPT ![r] = None]
    /\ Ran(r, FALSE)
    /\ UNCHANGED <<Handles, req>>

\* the response is sent and the handler's frame is gone
Close(r) ==
    /\ pc[r] \in {"done", "raised"}
    /\ pc' = [pc EXCEPT ![r] = "idle"]
    /\ req' = [req EXCEPT ![r] = None]
    /\ response' = [response EXCEPT ![r] = None]
    /\ calls' = [calls EXCEPT ![r] = {}]
    /\ Ran(r, TRUE)
    /\ UNCHANGED <<Handles, pil, fwd>>

\* the trainer's variables while the server runs
TrainIdle ==
    /\ tpc = "off" /\ fs = None /\ args = None /\ class_names = <<>>
    /\ all_images = <<>> /\ images_with_labels = <<>> /\ split = None
    /\ raised = None /\ history = <<>>

Init == ServerInit /\ TrainIdle

Next ==
    \E r \in Requests :
        \/ Detect(r) /\ UNCHANGED trainVars
        \/ FaceEmbed(r) /\ UNCHANGED trainVars
        \/ FaceVerify(r) /\ UNCHANGED trainVars
        \/ RunForward(r) /\ UNCHANGED trainVars
        \/ Resume(r) /\ UNCHANGED trainVars
        \/ Close(r) /\ UNCHANGED trainVars

Spec == Init /\ [][Next]_vars

(***************************************************************************)
(* train.py                                                                *)
(***************************************************************************)
\* line.strip(): leading and trailing whitespace removed
Whitespace == {" ", "\t", "\n"}
RECURSIVE LStrip(_)
LStrip(l) == IF l # <<>> /\ Head(l) \in Whitespace THEN LStrip(Tail(l)) ELSE l
RECURSIVE RStrip(_)
RStrip(l) ==
    IF l # <<>> /\ l[Len(l)] \in Whitespace
    THEN RStrip(SubSeq(l, 1, Len(l) - 1)) ELSE l
Strip(l) == LStrip(RStrip(l))

\* read_class_names: the stripped non-blank lines; missing file or no name raises
read_class_names(classes_file) ==
    IF classes_file = None THEN Exc("FileNotFoundError") ELSE
    LET lines == classes_file.lines
        names == [i \in 1..Len(lines) |-> Strip(lines[i])]
        kept  == SelectSeq(names, LAMBDA n : n # <<>>)
    IN  IF kept = <<>> THEN Exc("ValueError") ELSE [names |-> kept]

\* sorted(...): file names of one extension in ascending order of their stem
RECURSIVE SortedByStem(_)
SortedByStem(S) ==
    IF S = {} THEN <<>>
    ELSE LET m == CHOOSE f \in S : \A g \in S : f.stem <= g.stem
         IN  <<m>> \o SortedByStem(S \ {m})

supported_exts == <<".jpg", ".jpeg", ".png", ".bmp", ".tif", ".tiff">>

\* collect_images: per extension, sorted, concatenated in supported_exts order
collect_images(files) ==
    LET RECURSIVE C(_)
        C(i) == IF i > Len(supported_exts) THEN <<>>
                ELSE SortedByStem({f \in files : f.ext = supported_exts[i]})
                        \o C(i + 1)
    IN  C(1)

\* a filter that forgets to look for the label file
filter_keeps_all(image_paths, labels) == image_paths
\* filter_images_with_labels: keep the images with a same-stem label file
filter_images_with_labels(image_paths, labels) ==
    SelectSeq(image_paths, LAMBDA img_path : img_path.stem \in labels)

\* The generator behind random.Random(seed): a linear congruential stand-in
\* for the library's Mersenne Twister, a fixed function of the seed alone.
NextRand(s) == (s * 75 + 74) % 65537
RandBelow(s, n) == s % n

Swap(x, i, j) == [x EXCEPT ![i] = x[j], ![j] = x[i]]

\* random.Random(seed).shuffle(x): for i from the last index down to the
\* second, swap x[i] with x[j], j drawn below i + 1 (indices here from 1)
Shuffle(x, seed) ==
    LET RECURSIVE F(_, _, _)
        F(y, i, s) == IF i < 2 THEN y
                      ELSE F(Swap(y, i, RandBelow(NextRand(s), i) + 1), i - 1,
                             NextRand(s))
    IN  F(x, Len(x), seed)

\* a cut that sizes the validation share first: N - int(N * val_split)
SplitIndexFromVal(n, val_split) == n - (n * val_split) \div 100
\* int(len(image_paths) * (1.0 - val_split)), val_split in hundredths, in
\* double arithmetic: 1.0 - 0.9 is the double 0.09999999999999998, so where
\* N / 10 is a whole number the product lies just below it and int() gives
\* one less; for 0, 0.2, 0.4 and 0.5 the double product has the exact integer
\* part for every N reached here.
SplitIndex(n, val_split) ==
    IF val_split = 90 /\ n > 0 /\ n % 10 = 0 THEN n \div 10 - 1
    ELSE (n * (100 - val_split)) \div 100

\* write_split_files: what the list holds afterwards (it is shuffled in
\* place) and the lines of train.txt and val.txt.  The paths are absolute
\* and free of symbolic links, so str(p.resolve()) is the path itself.
write_split_files(image_paths, val_split, seed) ==
    LET shuffled == Shuffle(image_paths, seed)
        split_index == SplitIndex(Len(shuffled), val_split)
    IN  [image_paths |-> shuffled,
         train |-> SubSeq(shuffled, 1, split_index),
         val |-> SubSeq(shuffled, split_index + 1, Len(shuffled))]

ValSplits == {0, 20, 40, 50, 90}
Seeds == {42, 7}

\* classes.txt: missing, empty, blank, or two names around a blank line
ClassFiles == { None, [lines |-> <<>>], [lines |-> << <<" ", "\n">> >>],
                [lines |-> << <<"u", "p", "\n">>, <<"\n">>,
                              <<" ", "l", "\n">> >>] }

File(stem, ext) == [stem |-> stem, ext |-> ext]

\* the server's variables while the trainer runs
ServerIdle ==
    /\ FACENET_AVAILABLE = FALSE /\ mtcnn = None /\ resnet = None
    /\ pc = [r \in Requests |-> "idle"]
    /\ req = [r \in Requests |-> None]
    /\ pil = [r \in Requests |-> None]
    /\ fwd = [r \in Requests |-> None]
    /\ response = [r \in Requests |-> None]
    /\ calls = [r \in Requests |-> {}]
    /\ overlapped = [r \in Requests |-> FALSE]

TrainInit ==
    /\ tpc = "start"
    /\ \E idir \in BOOLEAN, ldir \in BOOLEAN, cf \in ClassFiles,
          nj \in 0..MaxJpg, np \in 0..MaxPng,
          missing \in SUBSET (1..MaxUnlabelled) :
          fs = [images_dir |-> idir, labels_dir |-> ldir, classes |-> cf,
                images |-> {File(i, ".jpg") : i \in 1..nj}
                           \cup {File(i, ".png") : i \in 1..np}
                           \cup {File(1, ".gif")},
                labels |-> (1..(MaxJpg + MaxPng)) \ missing]
    /\ \E v \in ValSplits, sd \in Seeds : args = [val_split |-> v, seed |-> sd]
    /\ class_names = <<>> /\ all_images = <<>> /\ images_with_labels = <<>>
    /\ split = None /\ raised = None /\ history = <<>>

Halt(e) == tpc' = "halted" /\ raised' = e

\* main, lines 160-163: both directories must exist
CheckDirs ==
    /\ tpc = "start"
    /\ IF ~fs.images_dir \/ ~fs.labels_dir
       THEN Halt(Exc("FileNotFoundError"))
       ELSE tpc' = "classes" /\ UNCHANGED raised
    /\ UNCHANGED <<fs, args, class_names, all_images, images_with_labels,
                   split, history>>

\* main, lines 165-166: read_class_names, then set_global_seed
ReadClasses ==
    /\ tpc = "classes"
    /\ LET names == read_class_names(fs.classes)
       IN  IF IsExc(names) THEN Halt(names) /\ UNCHANGED class_names
           ELSE /\ class_names' = names.names
                /\ tpc' = "collect" /\ UNCHANGED raised
    /\ UNCHANGED <<fs, args, all_images, images_with_labels, split, history>>

\* main, lines 168-170
Collect ==
    /\ tpc = "collect"
    /\ all_images' = collect_images(fs.images)
    /\ IF all_images' = <<>> THEN Halt(Exc("RuntimeError"))
       ELSE tpc' = "filter" /\ UNCHANGED raised
    /\ UNCHANGED <<fs, args, class_names, images_with_labels, split, history>>

\* main, lines 171-173
Filter ==
    /\ tpc = "filter"
    /\ images_with_labels' = filter_images_with_labels(all_images, fs.labels)
    /\ IF images_with_labels' = <<>> THEN Halt(Exc("RuntimeError"))
       ELSE tpc' = "split" /\ UNCHANGED raised
    /\ UNCHANGED <<fs, args, class_names, all_images, split, history>>

\* main, lines 175-178
WriteSplit ==
    /\ tpc = "split"
    /\ LET out == write_split_files(images_with_labels, args.val_split,
                                    args.seed)
       IN  /\ images_with_labels' = out.image_paths
           /\ split' = [train |-> out.train, val |-> out.val]
    /\ tpc' = "yaml"
    /\ UNCHANGED <<fs, args, class_names, all_images, raised, history>>

\* main, lines 180-186: write_dataset_yaml
WriteYaml ==
    /\ tpc = "yaml"
    /\ tpc' = "train"
    /\ UNCHANGED <<fs, args, class_names, all_images, images_with_labels,
                   split, raised, history>>

\* main, lines 188-200: YOLO(args.model).train(...)
Train ==
    /\ tpc = "train"
    /\ tpc' = "training"
    /\ UNCHANGED <<fs, args, class_names, all_images, images_with_labels,
                   split, raised, history>>

TrainNext ==
    \/ CheckDirs /\ UNCHANGED serverVars
    \/ ReadClasses /\ UNCHANGED serverVars
    \/ Collect /\ UNCHANGED serverVars
    \/ Filter /\ UNCHANGED serverVars
    \/ WriteSplit /\ UNCHANGED serverVars
    \/ WriteYaml /\ UNCHANGED serverVars
    \/ Train /\ UNCHANGED serverVars

TrainSpecInit == ServerIdle /\ TrainInit

TrainSpec == TrainSpecInit /\ [][TrainNext]_vars

(***************************************************************************)
(* write_split_files called repeatedly by one caller.  The caller builds   *)
(* its list as main does (collect, then filter) and passes it on; between  *)
(* two calls it either keeps the list object or builds it afresh.          *)
(* tpc is "fresh" while the list has not been passed to a call yet.        *)
(***************************************************************************)
SplitInit ==
    /\ ServerIdle
    /\ tpc = "fresh"
    /\ \E nj \in 0..MaxJpg, np \in 0..MaxPng,
          missing \in SUBSET (1..MaxUnlabelled) :
          fs = [images_dir |-> TRUE, labels_dir |-> TRUE,
                classes |-> [lines |-> << <<"u", "p">> >>],
                images |-> {File(i, ".jpg") : i \in 1..nj}
                           \cup {File(i, ".png") : i \in 1..np},
                labels |-> (1..(MaxJpg + MaxPng)) \ missing]
    /\ \E v \in ValSplits, sd \in Seeds : args = [val_split |-> v, seed |-> sd]
    /\ class_names = << <<"u", "p">> >>
    /\ all_images = collect_images(fs.images)
    /\ images_with_labels = filter_images_with_labels(all_images, fs.labels)
    /\ split = None /\ raised = None /\ history = <<>>

\* write_split_files(images_with_labels, split_dir, val_split, seed)
CallWriteSplit ==
    /\ tpc \in {"fresh", "used"}
    /\ Len(history) < MaxCalls
    /\ LET out == write_split_files(images_with_labels, args.val_split,
                                    args.seed)
       IN  /\ images_with_labels' = out.image_paths
           /\ split' = [train |-> out.train, val |-> out.val]
           /\ history' = Append(history,
                  [given |-> images_with_labels, reused |-> tpc = "used",
                   train |-> out.train, val |-> out.val])
    /\ tpc' = "used"
    /\ UNCHANGED <<fs, args, class_names, all_images, raised>>

\* the caller builds the list again, as main's lines 168-171 do
Recollect ==
    /\ tpc = "used"
    /\ Len(history) < MaxCalls
    /\ images_with_labels' = filter_images_with_labels(all_images, fs.labels)
    /\ tpc' = "fresh"
    /\ UNCHANGED <<fs, args, class_names, all_images, split, raised, history>>

SplitNext ==
    \/ CallWriteSplit /\ UNCHANGED serverVars
    \/ Recollect /\ UNCHANGED serverVars

SplitSpec == SplitInit /\ [][SplitNext]_vars

(***************************************************************************)
(* Properties of the server                                                *)
(***************************************************************************)
Finished(r) == pc[r] = "done"
IsReq(r, endpoint) == pc[r] # "idle" /\ req[r].endpoint = endpoint

\* the image string yields no image: base64 or image decoding fails
DecodeFails(image) ==
    LET b == B64Decode(StripHeader(image))
    IN  IsExc(b) \/ b.bytes \notin ImageBytes

\* C1: a request whose image fails base64 or image decoding never leaves its
\* handler as an exception and never reaches inference; it ends in the error
\* variant of its endpoint with the full key set: /detect {error, detection =
\* "no_tongue", confidence = 0.0}, /face/embed {error, embedding = null},
\* /face/verify {error}.
C1_DecodeFailureErrorVariant ==
    \A r \in Requests :
        (pc[r] # "idle" /\ DecodeFails(req[r].image)) =>
            /\ Finished(r)
            /\ "error" \in DOMAIN response[r]
            /\ req[r].endpoint = "/detect" =>
                  /\ DOMAIN response[r] = {"error", "detection", "confidence"}
                  /\ response[r].detection = "no_tongue"
                  /\ response[r].confidence = 0
            /\ req[r].endpoint = "/face/embed" =>
                  /\ DOMAIN response[r] = {"error", "embedding"}
                  /\ response[r].embedding = None
            /\ req[r].endpoint = "/face/verify" =>
                  DOMAIN response[r] = {"error"}

C1_Witness ==
    \E r, q \in Requests :
        /\ Finished(r) /\ IsReq(r, "/detect") /\ req[r].image = ImgBadB64
        /\ Finished(q) /\ IsReq(q, "/face/verify") /\ req[q].image = ImgJunk
        /\ response[q] = [error |-> "Could not decode image"]

\* the face backend did not come up at startup
Degraded == ~FACENET_AVAILABLE \/ mtcnn = None \/ resnet = None

DegradedAnswers ==
    Degraded =>
        \A r \in Requests :
            /\ IsReq(r, "/face/embed") =>
                  /\ Finished(r) /\ calls[r] = {}
                  /\ response[r] = [error |-> "FaceNet not available on server",
                                    embedding |-> None]
            /\ IsReq(r, "/face/verify") =>
                  /\ Finished(r) /\ calls[r] = {}
                  /\ response[r] = [error |-> "FaceNet not available on server"]

\* C2: when the face backend failed to initialize, every /face/embed request
\* returns {error: "FaceNet not available on server", embedding: null} and
\* every /face/verify request {error: "FaceNet not available on server"}
\* without decoding, detecting or embedding, and no step of any handler
\* changes FACENET_AVAILABLE, mtcnn or resnet: the degraded mode never ends.
C2_DegradedModePermanent ==
    /\ []DegradedAnswers
    /\ [][Handles' = Handles]_vars

C2_Witness ==
    /\ FACENET_AVAILABLE /\ mtcnn = None
    /\ \E r, q \in Requests :
          /\ Finished(r) /\ IsReq(r, "/face/embed") /\ req[r].image = ImgFace
          /\ Finished(q) /\ IsReq(q, "/face/verify")
          /\ req[q].reference # <<>>

\* C3: a /face/verify request with an empty reference list returns an error
\* object and invokes neither image decoding, nor the offloaded face
\* detection, nor the embedding network, whether or not its image is valid.
C3_EmptyReferenceNoInference ==
    \A r \in Requests :
        (IsReq(r, "/face/verify") /\ req[r].reference = <<>>) =>
            /\ Finished(r)
            /\ "error" \in DOMAIN response[r]
            /\ calls[r] = {}

C3_Witness ==
    /\ ~Degraded
    /\ \E r, q \in Requests :
          /\ IsReq(r, "/face/verify") /\ req[r].reference = <<>>
          /\ ~DecodeFails(req[r].image)
          /\ response[r] = [error |-> "Empty reference embedding"]
          /\ IsReq(q, "/face/verify") /\ req[q].reference = <<>>
          /\ DecodeFails(req[q].image)

\* the boxes the detector returns for an image string that decodes
BoxesOf(image) == Predict([img |-> B64Decode(StripHeader(image)).bytes])

C5_MatchIffAtLeastThreshold ==
    \A r \in Requests :
        (Finished(r) /\ IsReq(r, "/face/verify")
            /\ "similarity" \in DOMAIN response[r]) =>
            /\ response[r].threshold = <<7, 10>>
            /\ response[r].match =
                  (response[r].similarity[1] * 10
                      >= 7 * response[r].similarity[2])

C5_Witness ==
    \E r, q \in Requests :
        /\ Finished(r) /\ IsReq(r, "/face/verify")
        /\ "similarity" \in DOMAIN response[r]
        /\ response[r].similarity[1] * 10 = 7 * response[r].similarity[2]
        /\ response[r].match
        /\ Finished(q) /\ IsReq(q, "/face/verify")
        /\ "similarity" \in DOMAIN response[q]
        /\ ~response[q].match

\* the response a request gets when it is the only one the server handles
Solo(request) ==
    CASE request.endpoint = "/detect" -> detect(request.image)
      [] request.endpoint = "/face/embed" ->
            LET e == face_embed_entry(request)
            IN  IF e.pc # "await" THEN e.response
                ELSE face_embed_resume(_forward(e.pil))
      [] request.endpoint = "/face/verify" ->
            LET e == face_verify_entry(request)
            IN  IF e.pc # "await" THEN e.response
                ELSE face_verify_resume(_forward(e.pil), request.reference)

\* C10: under every interleaving of the handlers, a request's response is
\* the response the same request gets when handled alone, and the image a
\* suspended handler holds is the one decoded from its own request.
C10_ResponseAsIfAlone ==
    \A r \in Requests :
        /\ Finished(r) => response[r] = Solo(req[r])
        /\ Suspended(r) => pil[r] = _decode_image_to_rgb(req[r].image)

C10_Witness ==
    \E r, q \in Requests :
        /\ r # q
        /\ Finished(r) /\ overlapped[r] /\ "embedding" \in DOMAIN response[r]
        /\ "error" \notin DOMAIN response[r]
        /\ Finished(q) /\ overlapped[q] /\ "similarity" \in DOMAIN response[q]
        /\ req[r].image # req[q].image

(***************************************************************************)
(* Properties of the trainer                                               *)
(***************************************************************************)
Range(q) == {q[i] : i \in 1..Len(q)}

\* C6: with seed and val_split fixed, every call of write_split_files on the
\* same input list, the list object of an earlier call included, writes the
\* train.txt and val.txt that the first call wrote.
C6_RepeatedCallsIdentical ==
    \A i \in 1..Len(history) :
        /\ history[i].train = history[1].train
        /\ history[i].val = history[1].val

\* calls that are given lists of equal contents write equal files
C6_EqualContentsEqualFiles ==
    \A i, j \in 1..Len(history) :
        history[i].given = history[j].given =>
            /\ history[i].train = history[j].train
            /\ history[i].val = history[j].val

\* the images main collects that have a same-stem label file
LabelledSet ==
    {f \in fs.images :
        /\ \E i \in 1..Len(supported_exts) : supported_exts[i] = f.ext
        /\ f.stem \in fs.labels}

SplitWritten == split # None

\* 100 * N * (1 - val_split), exactly
ExactShare == Len(images_with_labels) * (100 - args.val_split)

CutOfShuffled ==
    LET N == Len(images_with_labels)
        k == Len(split.train)
        shuffled == Shuffle(filter_images_with_labels(
                               collect_images(fs.images), fs.labels), args.seed)
    IN  /\ images_with_labels = shuffled
        /\ k <= N
        /\ split.train = SubSeq(shuffled, 1, k)
        /\ split.val = SubSeq(shuffled, k + 1, N)
        /\ Len(split.train) + Len(split.val) = N

TenAtOneFifth ==
    (Len(images_with_labels) = 10 /\ args.val_split = 20) =>
        Len(split.train) = 8 /\ Len(split.val) = 2

\* C7 as stated: the training subset is the first floor(N * (1 - val_split))
\* entries of the shuffled list and the validation subset the rest, the
\* sizes sum to N, training is the larger subset when val_split < 0.5, and
\* N = 10 with val_split = 0.2 gives 8 and 2.
C7_FloorCutTrainLarger ==
    SplitWritten =>
        /\ CutOfShuffled
        /\ Len(split.train) = ExactShare \div 100
        /\ args.val_split < 50 => Len(split.train) > Len(split.val)
        /\ TenAtOneFifth

\* C7, amended: the training subset is the first int(N * (1.0 - val_split))
\* entries of the shuffled list, the product taken in double precision: the
\* exact floor, or one less where the product is a whole number and rounding
\* falls short of it (N = 10, val_split = 0.9 gives 0); the validation subset
\* is the rest, the sizes sum to N, for val_split < 0.5 validation exceeds
\* training by at most one entry, and N = 10 with val_split = 0.2 gives 8, 2.
C7_CutAsComputed ==
    SplitWritten =>
        /\ CutOfShuffled
        /\ ExactShare % 100 # 0 => Len(split.train) = ExactShare \div 100
        /\ ExactShare % 100 = 0 =>
              Len(split.train) \in {ExactShare \div 100 - 1, ExactShare \div 100}
        /\ (Len(images_with_labels) = 10 /\ args.val_split = 90) =>
              Len(split.train) = 0
        /\ args.val_split < 50 => Len(split.val) <= Len(split.train) + 1
        /\ TenAtOneFifth

C7_Witness ==
    /\ SplitWritten
    /\ Len(images_with_labels) = 10 /\ args.val_split = 20
    /\ Len(split.train) = 8 /\ Len(split.val) = 2

\* C8: the written training and validation subsets are disjoint and together
\* are exactly the collected images with a same-stem label file, each once;
\* when no image has a label file, main raises and no split is written.
C8_SplitPartitionsLabelled ==
    /\ SplitWritten =>
          /\ Range(split.train) \cap Range(split.val) = {}
          /\ Range(split.train) \cup Range(split.val) = LabelledSet
          /\ Len(split.train) + Len(split.val) = Cardinality(LabelledSet)
    /\ LabelledSet = {} =>
          /\ ~SplitWritten
          /\ tpc \in {"start", "classes", "collect", "filter", "halted"}
          /\ tpc = "halted" => IsExc(raised)

C8_Witness ==
    /\ SplitWritten
    /\ split.train # <<>> /\ split.val # <<>>
    /\ \E f \in fs.images : f.ext = ".jpg" /\ f.stem \notin fs.labels
    /\ \E f \in fs.images : f.ext = ".png" /\ f.stem \in fs.labels

\* C9: the training call is reached only when both directories and the
\* classes file exist and the class names, the collected images, the
\* labelled images, the training subset and the validation subset are all
\* non-empty.
C9_TrainOnlyWhenAllNonEmpty ==
    tpc = "training" =>
        /\ fs.images_dir /\ fs.labels_dir /\ fs.classes # None
        /\ class_names # <<>>
        /\ all_images # <<>>
        /\ images_with_labels # <<>>
        /\ split.train # <<>>
        /\ split.val # <<>>

\* what main does check before the training call
C9_TrainOnlyAfterMainChecks ==
    tpc = "training" =>
        /\ fs.images_dir /\ fs.labels_dir /\ fs.classes # None
        /\ class_names # <<>>
        /\ all_images # <<>>
        /\ images_with_labels # <<>>

(***************************************************************************)
(* Properties of the header strip                                          *)
(***************************************************************************)
FirstComma(s) == CHOOSE i \in 1..Len(s) : s[i] = "," /\ \A j \in 1..(i - 1) : s[j] # ","

\* everything after the first comma, later commas included
AfterFirstComma(s) ==
    IF HasComma(s) THEN SubSeq(s, FirstComma(s) + 1, Len(s)) ELSE s

\* the text between the first comma and the next one (or the end)
SecondSegment(s) ==
    LET rest == AfterFirstComma(s)
    IN  IF HasComma(s) /\ HasComma(rest)
        THEN SubSeq(rest, 1, FirstComma(rest) - 1) ELSE rest

\* the handler of slot r has handed its image string to base64.b64decode
Decoded(r) ==
    pc[r] # "idle" /\ (req[r].endpoint = "/detect" \/ "decode" \in calls[r])

\* C11: in /detect and in the face endpoints' decoder alike, the text passed
\* to the base64 decoder is everything after the first comma of the image
\* string, later commas included, and the whole string when it has no comma.
C11_TextAfterFirstComma ==
    \A r \in Requests :
        Decoded(r) => StripHeader(req[r].image) = AfterFirstComma(req[r].image)

\* what the handlers do pass on: the second comma-separated segment
C11_TextIsSecondSegment ==
    \A r \in Requests :
        Decoded(r) => StripHeader(req[r].image) = SecondSegment(req[r].image)

\* a string with two commas went through the decoder of both kinds of handler
C11_TwoCommasDecoded ==
    \E r, q \in Requests :
        /\ Decoded(r) /\ req[r].endpoint = "/detect"
        /\ Decoded(q) /\ req[q].endpoint = "/face/embed"
        /\ req[r].image = ImgTwoComma /\ req[q].image = ImgTwoComma

====
